---------------------------- MODULE Spec2Model ----------------------------
(***************************************************************************)
(* queuectl: a persistent job queue on one SQLite file, shared by worker   *)
(* processes and by the operator's CLI.  The model follows                 *)
(* src/queuectl/storage.py (the store and its transactions),               *)
(* src/queuectl/worker.py (the execution loop), src/queuectl/backoff.py    *)
(* and the CLI entry points of src/queuectl/cli.py that reach the store.   *)
(*                                                                         *)
(* Every SQL statement is one step.  A statement run outside _txn is in    *)
(* autocommit mode (isolation_level=None): it needs the write lock for     *)
(* itself and is visible at once.  Inside _txn (BEGIN IMMEDIATE) the       *)
(* process holds the write lock from BEGIN to COMMIT and its writes stay   *)
(* in its private view `pend` until COMMIT publishes them (WAL readers see *)
(* the last committed state).  BEGIN is folded into the first statement    *)
(* of a transaction and COMMIT into its last one: between BEGIN and the    *)
(* first statement, and between the last statement and COMMIT, no other    *)
(* process can see or change anything the transaction reads or writes.     *)
(***************************************************************************)
EXTENDS Integers, Sequences, FiniteSets, TLC

\* ------------------------------------------------------------- bounds
NumWorkers == 2        \* worker processes started by start_workers(count)
MaxNow == 1            \* the clock runs over 0..MaxNow
MaxRetriesIn == 0      \* enqueue payloads carry max_retries in 0..MaxRetriesIn
MaxAttemptsIn == 1     \* enqueue payloads carry attempts in 0..MaxAttemptsIn
MaxOps == 2            \* the operator issues at most MaxOps commands
MaxBase == 5           \* compute_delay is called with base in 0..MaxBase
MaxAttemptsArg == 6    \* and attempts in -MaxAttemptsArg..MaxAttemptsArg

\* -------------------------------------------------- program constants
DefaultMaxRetries == 3     \* int(job.get("max_retries", 3))
DefaultAttempts == 0       \* int(job.get("attempts", 0))

Pids == 1..NumWorkers
Operator == 0              \* the CLI process
NoProc == -1               \* nobody holds the write lock
NULL == -1                 \* SQL NULL in the eta column
JobIds == {"j1", "j2"}
Commands == {"exit 0", "exit 1"}
States == {"pending", "processing", "completed", "failed", "dead"}
None == [none |-> TRUE]    \* Python's None
NoTxn == [none |-> TRUE]   \* no open transaction

VARIABLES
  jobs,        \* table jobs: id -> row, over the ids present (committed)
  dlq,         \* table dlq: sequence of records in insertion (id) order
  workers,     \* table workers: the registered pids
  control,     \* table control: the keys present
  config,      \* table config: key -> value, over the keys present
  lock,        \* holder of SQLite's write lock, or NoProc
  pend,        \* the lock holder's uncommitted view of jobs and dlq
  now,         \* the clock read by time.time() and _now_iso()
  pc,          \* pc[w]: where worker w is in run_forever
  stop_event,  \* stop_event[w]: the worker's Event, set by _handle_signal
  job,         \* job[w]: run_forever's `job` (the dict pop returned)
  attempts,    \* attempts[w]: run_forever's local `attempts`
  delay,       \* delay[w]: run_forever's local `delay`
  err,         \* err[w]: the last_error text the worker is about to report
  opc,         \* the operator's position inside retry_from_dlq
  oparg,       \* the job_id of the operator's latest retry_from_dlq call
  opret,       \* the operator's last finished call and its result
  ops,         \* the number of commands the operator has issued
  sup,         \* where the process that called start_workers is in it
  supi,        \* the index in procs of the process start_workers is at
  arg_base,    \* the base of a direct call of compute_delay
  arg_attempts, \* the attempts of that call
  ret_delay    \* what the call returned, NULL before it has

store == <<jobs, dlq, workers, control, config, lock, pend>>
wlocal == <<pc, stop_event, job, attempts, delay, err>>
oper == <<opc, oparg, opret, ops>>
supervisor == <<sup, supi>>
call == <<arg_base, arg_attempts, ret_delay>>
vars == <<jobs, dlq, workers, control, config, lock, pend, now,
          pc, stop_event, job, attempts, delay, err, opc, oparg, opret,
          ops, sup, supi, arg_base, arg_attempts, ret_delay>>

\* ---------------------------------------------------------- the store

\* SELECT * FROM jobs WHERE id = ? as seen in table t
HasJob(t, id) == id \in DOMAIN t

\* _txn: the process that holds the write lock while the body of
\* `with self._txn(con)` runs.  BEGIN IMMEDIATE makes it the caller, from
\* BEGIN to COMMIT.
TxnNoLock(p) == NoProc
_txn(p) == p

\* The tables process p reads: its own uncommitted view inside a
\* transaction, the committed tables otherwise.
ViewJobs(p) == IF lock = p THEN pend.jobs ELSE jobs
ViewDlq(p) == IF lock = p THEN pend.dlq ELSE dlq

\* BEGIN IMMEDIATE and the first statement of a transaction of p, which
\* leaves tables (tj, td): BEGIN waits for the write lock; the statement's
\* effect stays in p's view.  Without a transaction the statement runs in
\* autocommit mode.
FirstStmt(p, tj, td) ==
  /\ lock = NoProc
  /\ IF _txn(p) = p
       THEN /\ lock' = p
            /\ pend' = [jobs |-> tj, dlq |-> td]
            /\ UNCHANGED <<jobs, dlq>>
       ELSE /\ jobs' = tj
            /\ dlq' = td
            /\ UNCHANGED <<lock, pend>>

\* A further statement of p's transaction (autocommit when p holds no
\* transaction: it then waits for the write lock and commits at once).
MidStmt(p, tj, td) ==
  IF lock = p
    THEN /\ pend' = [jobs |-> tj, dlq |-> td]
         /\ UNCHANGED <<jobs, dlq, lock>>
    ELSE /\ lock = NoProc
         /\ jobs' = tj
         /\ dlq' = td
         /\ UNCHANGED <<lock, pend>>

\* The last statement of p's transaction, then COMMIT: the view becomes
\* the committed tables and the write lock is released.
LastStmt(p, tj, td) ==
  /\ lock \in {p, NoProc}
  /\ jobs' = tj
  /\ dlq' = td
  /\ lock' = NoProc
  /\ pend' = NoTxn

\* A whole transaction of p that only reads (BEGIN IMMEDIATE, SELECT,
\* return, COMMIT), and any single autocommit write: it needs the write
\* lock for the length of the step.
LockFree == lock = NoProc

\* WHERE state='pending' AND (eta IS NULL OR eta <= ?)
EligibleOrFailed(r, t) ==
  r.state \in {"pending", "failed"} /\ (r.eta = NULL \/ r.eta <= t)
Eligible(r, t) == r.state = "pending" /\ (r.eta = NULL \/ r.eta <= t)

\* ORDER BY eta IS NOT NULL, created_at ASC: r sorts strictly before s
BeforeIgnoringEta(r, s) == r.created_at < s.created_at
Before(r, s) ==
  \/ r.eta = NULL /\ s.eta # NULL
  \/ (r.eta = NULL) = (s.eta = NULL) /\ r.created_at < s.created_at

\* The rows LIMIT 1 may return: the eligible rows no eligible row precedes
\* (SQLite may return any of the rows that tie).
PopCandidates(t, time) ==
  {id \in DOMAIN t :
     /\ Eligible(t[id], time)
     /\ \A o \in DOMAIN t : Eligible(t[o], time) => ~Before(t[o], t[id])}

\* UPDATE jobs SET state='processing', updated_at=? WHERE id=?
\* (an UPDATE whose WHERE matches no row changes nothing)
SetProcessing(t, id, ts) ==
  IF HasJob(t, id)
    THEN [t EXCEPT ![id].state = "processing", ![id].updated_at = ts]
    ELSE t

\* UPDATE jobs SET state='completed', updated_at=?, eta=NULL WHERE id=?
SetCompletedResetAttempts(t, id, ts) ==
  IF HasJob(t, id)
    THEN [t EXCEPT ![id].state = "completed", ![id].updated_at = ts,
                   ![id].eta = NULL, ![id].attempts = 0]
    ELSE t
SetCompleted(t, id, ts) ==
  IF HasJob(t, id)
    THEN [t EXCEPT ![id].state = "completed", ![id].updated_at = ts,
                   ![id].eta = NULL]
    ELSE t

\* UPDATE jobs SET state='failed', attempts=?, eta=?, updated_at=? WHERE id=?
SetRetryPending(t, id, att, eta, ts) ==
  IF HasJob(t, id)
    THEN [t EXCEPT ![id].state = "pending", ![id].attempts = att,
                   ![id].eta = eta, ![id].updated_at = ts]
    ELSE t
SetFailed(t, id, att, eta, ts) ==
  IF HasJob(t, id)
    THEN [t EXCEPT ![id].state = "failed", ![id].attempts = att,
                   ![id].eta = eta, ![id].updated_at = ts]
    ELSE t

\* UPDATE jobs SET state='dead', updated_at=?, eta=NULL WHERE id=?
SetDead(t, id, ts) ==
  IF HasJob(t, id)
    THEN [t EXCEPT ![id].state = "dead", ![id].updated_at = ts,
                   ![id].eta = NULL]
    ELSE t

\* UPDATE jobs SET state='pending', attempts=0, eta=NULL, updated_at=?
\* WHERE id=?
SetPendingNoReset(t, id, ts) ==
  IF HasJob(t, id)
    THEN [t EXCEPT ![id].state = "pending", ![id].eta = NULL,
                   ![id].updated_at = ts]
    ELSE t
SetPending(t, id, ts) ==
  IF HasJob(t, id)
    THEN [t EXCEPT ![id].state = "pending", ![id].attempts = 0,
                   ![id].eta = NULL, ![id].updated_at = ts]
    ELSE t

\* INSERT INTO dlq(job_id, payload, last_error, failed_at)
InsertDlq(d, row, last_error, ts) ==
  Append(d, [job_id |-> row.id, payload |-> row,
             last_error |-> last_error, failed_at |-> ts])

\* INSERT INTO jobs VALUES(...): the PRIMARY KEY on id makes the insert of
\* an id that is present raise sqlite3.IntegrityError and change nothing
InsertOrReplaceJob(t, row) ==
  [raised |-> FALSE,
   jobs |-> [id \in DOMAIN t \cup {row.id} |-> IF id = row.id THEN row ELSE t[id]]]
InsertJob(t, row) ==
  IF HasJob(t, row.id)
    THEN [raised |-> TRUE, jobs |-> t]
    ELSE [raised |-> FALSE,
          jobs |-> [id \in DOMAIN t \cup {row.id} |->
                      IF id = row.id THEN row ELSE t[id]]]

\* DELETE FROM jobs WHERE id=?
DeleteJobRow(t, id) == [j \in DOMAIN t \ {id} |-> t[j]]

\* DELETE FROM dlq WHERE job_id=?
DeleteDlqNothing(d, id) == d
DeleteDlq(d, id) == SelectSeq(d, LAMBDA x : x.job_id # id)

\* SELECT * FROM dlq WHERE job_id=?
DlqOf(d, id) == {i \in DOMAIN d : d[i].job_id = id}

\* ------------------------------------------------------------ backoff

RECURSIVE Pow(_, _)
Pow(b, n) == IF n = 0 THEN 1 ELSE b * Pow(b, n - 1)

\* compute_delay(base, attempts)
ComputeDelayAbs(base, a) == Pow(base, IF a < 0 THEN 0 - a ELSE a)
compute_delay(base, a) == Pow(base, IF a < 0 THEN 0 ELSE a)

\* float(v) of a config value: the numbers parse, anything else raises
\* ValueError
ConfigValues == {"3", "abc"}
IsFloat(v) == v \in {"2", "3"}
Float(v) == IF v = "2" THEN 2 ELSE 3

\* config_get(key, default)
config_get(key, default) == IF key \in DOMAIN config THEN config[key] ELSE default

\* is_stop_requested()
is_stop_requested == "stop_requested" \in control


\* ------------------------------------------------------ the worker loop

\* What subprocess.run(command, shell=True) can do: the shell's exit code,
\* or an exception of the launch (FileNotFoundError), whatever the command.
ExitCode(command) == IF command = "exit 0" THEN 0 ELSE 1
RunOutcomes(command) ==
  {[kind |-> "exit", code |-> ExitCode(command)],
   [kind |-> "FileNotFoundError", code |-> 0]}

\* f"Exit {result.returncode}", f"FileNotFoundError: {e}",
\* f"{type(e).__name__}: {e}"
ErrorText(out) ==
  IF out.kind = "exit"
    THEN (IF out.code = 1 THEN "Exit 1" ELSE "Exit 0")
    ELSE out.kind
ValueErrorText == "ValueError"
NoErr == ""

\* The worker's locals outside an iteration.
ResetLocals(w) ==
  /\ job' = [job EXCEPT ![w] = None]
  /\ attempts' = [attempts EXCEPT ![w] = 0]
  /\ delay' = [delay EXCEPT ![w] = 0]
  /\ err' = [err EXCEPT ![w] = NoErr]

\* run_forever, lines 21-24: the signal handlers are installed, then
\* register_worker (INSERT OR REPLACE INTO workers)
WRegister(w) ==
  /\ pc[w] = "start"
  /\ LockFree
  /\ workers' = workers \cup {w}
  /\ pc' = [pc EXCEPT ![w] = "loop"]
  /\ UNCHANGED <<jobs, dlq, control, config, lock, pend, now, stop_event,
                 job, attempts, delay, err, oper, supervisor, call>>

\* line 26: while not self.stop_event.is_set() and not
\* self.db.is_stop_requested()
LoopContinuesIgnoringFlag(w) == ~stop_event[w]
LoopContinues(w) == ~stop_event[w] /\ ~is_stop_requested

WLoop(w) ==
  /\ pc[w] = "loop"
  /\ pc' = [pc EXCEPT ![w] = IF LoopContinues(w) THEN "pop" ELSE "finally"]
  /\ UNCHANGED <<store, now, stop_event, job, attempts, delay, err, oper, supervisor, call>>

\* pop_pending_for_run, lines 122-132: BEGIN IMMEDIATE and the SELECT.
\* With no row the call returns None (and commits) and the worker goes to
\* sleep (lines 28-30).
WPopSelect(w) ==
  /\ pc[w] = "pop"
  /\ IF PopCandidates(jobs, now) = {}
       THEN /\ LockFree
            /\ pc' = [pc EXCEPT ![w] = "sleep"]
            /\ UNCHANGED <<jobs, dlq, lock, pend, job>>
       ELSE \E id \in PopCandidates(jobs, now) :
              /\ FirstStmt(w, jobs, dlq)
              /\ job' = [job EXCEPT ![w] = jobs[id]]
              /\ pc' = [pc EXCEPT ![w] = "pop_update"]
  /\ UNCHANGED <<workers, control, config, now, stop_event, attempts, delay,
                 err, oper, supervisor, call>>

\* lines 30-31: time.sleep(1) ends, continue
WSleep(w) ==
  /\ pc[w] = "sleep"
  /\ pc' = [pc EXCEPT ![w] = "loop"]
  /\ UNCHANGED <<store, now, stop_event, job, attempts, delay, err, oper, supervisor, call>>

\* pop_pending_for_run, lines 133-135: the UPDATE to processing, COMMIT,
\* return dict(row): the row as the SELECT read it
WPopUpdate(w) ==
  /\ pc[w] = "pop_update"
  /\ LastStmt(w, SetProcessing(ViewJobs(w), job[w].id, now), ViewDlq(w))
  /\ pc' = [pc EXCEPT ![w] = "run"]
  /\ UNCHANGED <<workers, control, config, now, stop_event, job, attempts,
                 delay, err, oper, supervisor, call>>

\* lines 33-49, 55-57, 63-65: the command runs; exit code 0 leads to
\* mark_completed; anything else increments attempts and chooses between
\* move_to_dlq and the retry
WRun(w) ==
  /\ pc[w] = "run"
  /\ \E out \in RunOutcomes(job[w].command) :
       IF out.kind = "exit" /\ out.code = 0
         THEN /\ pc' = [pc EXCEPT ![w] = "mark_completed"]
              /\ attempts' = [attempts EXCEPT ![w] = job[w].attempts]
              /\ err' = err
         ELSE /\ attempts' = [attempts EXCEPT ![w] = job[w].attempts + 1]
              /\ err' = [err EXCEPT ![w] = ErrorText(out)]
              /\ pc' = [pc EXCEPT ![w] =
                          IF job[w].attempts + 1 > job[w].max_retries
                            THEN "move_to_dlq"
                            ELSE IF out.kind = "exit" THEN "config_get"
                                                      ELSE "config_get_h"]
  /\ UNCHANGED <<store, now, stop_event, job, delay, oper, supervisor, call>>

\* line 43 and mark_completed, lines 137-140
WMarkCompleted(w) ==
  /\ pc[w] = "mark_completed"
  /\ LockFree
  /\ jobs' = SetCompleted(jobs, job[w].id, now)
  /\ pc' = [pc EXCEPT ![w] = "loop"]
  /\ ResetLocals(w)
  /\ UNCHANGED <<dlq, workers, control, config, lock, pend, now, stop_event,
                 oper, supervisor, call>>

\* lines 52-53, inside the try: config_get, float(), compute_delay.  A
\* value float() rejects raises ValueError, which the `except Exception`
\* of line 63 handles: attempts is incremented again (line 64) and the
\* handler chooses between move_to_dlq and the retry (lines 65-70)
WConfigGet(w) ==
  /\ pc[w] = "config_get"
  /\ LET v == config_get("backoff_base", "2") IN
       IF IsFloat(v)
         THEN /\ delay' = [delay EXCEPT ![w] = compute_delay(Float(v), attempts[w])]
              /\ pc' = [pc EXCEPT ![w] = "mark_failed_retry"]
              /\ UNCHANGED <<attempts, err>>
         ELSE /\ attempts' = [attempts EXCEPT ![w] = attempts[w] + 1]
              /\ err' = [err EXCEPT ![w] = ValueErrorText]
              /\ pc' = [pc EXCEPT ![w] =
                          IF attempts[w] + 1 > job[w].max_retries
                            THEN "move_to_dlq" ELSE "config_get_h"]
              /\ delay' = delay
  /\ UNCHANGED <<store, now, stop_event, job, oper, supervisor, call>>

\* lines 60-61 and 68-69, inside an except handler: the same three calls,
\* but a ValueError raised here is handled by nobody: it leaves the loop
\* through the finally clause
WConfigGetInHandler(w) ==
  /\ pc[w] = "config_get_h"
  /\ LET v == config_get("backoff_base", "2") IN
       IF IsFloat(v)
         THEN /\ delay' = [delay EXCEPT ![w] = compute_delay(Float(v), attempts[w])]
              /\ pc' = [pc EXCEPT ![w] = "mark_failed_retry"]
              /\ err' = err
         ELSE /\ pc' = [pc EXCEPT ![w] = "finally"]
              /\ err' = [err EXCEPT ![w] = ValueErrorText]
              /\ delay' = delay
  /\ UNCHANGED <<store, now, stop_event, job, attempts, oper, supervisor, call>>

\* lines 54, 62, 70 and mark_failed_retry, lines 142-148
WMarkFailedRetry(w) ==
  /\ pc[w] = "mark_failed_retry"
  /\ LockFree
  /\ jobs' = SetFailed(jobs, job[w].id, attempts[w], now + delay[w], now)
  /\ pc' = [pc EXCEPT ![w] = "loop"]
  /\ ResetLocals(w)
  /\ UNCHANGED <<dlq, workers, control, config, lock, pend, now, stop_event,
                 oper, supervisor, call>>

\* lines 50, 58, 66 and move_to_dlq, lines 151-155: json.dumps(job_row),
\* BEGIN IMMEDIATE, the INSERT INTO dlq
WDlqInsert(w) ==
  /\ pc[w] = "move_to_dlq"
  /\ FirstStmt(w, jobs, InsertDlq(dlq, job[w], err[w], now))
  /\ pc' = [pc EXCEPT ![w] = "dlq_update"]
  /\ UNCHANGED <<workers, control, config, now, stop_event, job, attempts,
                 delay, err, oper, supervisor, call>>

\* move_to_dlq, lines 156-157: the UPDATE to dead, COMMIT
WDlqUpdate(w) ==
  /\ pc[w] = "dlq_update"
  /\ LastStmt(w, SetDead(ViewJobs(w), job[w].id, now), ViewDlq(w))
  /\ pc' = [pc EXCEPT ![w] = "loop"]
  /\ ResetLocals(w)
  /\ UNCHANGED <<workers, control, config, now, stop_event, oper, supervisor, call>>

\* lines 71-72: finally, deregister_worker (DELETE FROM workers)
WLeaveKeepingRow(w) ==
  /\ pc[w] = "finally"
  /\ pc' = [pc EXCEPT ![w] = "done"]
  /\ UNCHANGED <<store, now, stop_event, job, attempts, delay, err, oper,
                 supervisor, call>>
WDeregister(w) ==
  /\ pc[w] = "finally"
  /\ LockFree
  /\ workers' = workers \ {w}
  /\ pc' = [pc EXCEPT ![w] = "done"]
  /\ UNCHANGED <<jobs, dlq, control, config, lock, pend, now, stop_event,
                 job, attempts, delay, err, oper, supervisor, call>>

\* _handle_signal, lines 15-17: SIGINT or SIGTERM reaches a worker whose
\* handlers are installed
Signal(w) ==
  /\ pc[w] \notin {"start", "done"}
  /\ ~stop_event[w]
  /\ stop_event' = [stop_event EXCEPT ![w] = TRUE]
  /\ UNCHANGED <<store, now, pc, job, attempts, delay, err, oper, supervisor, call>>

\* the clock
Tick ==
  /\ now < MaxNow
  /\ now' = now + 1
  /\ UNCHANGED <<store, wlocal, oper, supervisor, call>>

\* ------------------------------------------------- the operator (CLI)

\* The operator's last call and what it returned (or raised).
Returned(op, id, ret) == opret' = [op |-> op, ret |-> ret]

\* The operator issues one more command.
Issue ==
  /\ ops < MaxOps
  /\ ops' = ops + 1

\* enqueue, lines 81-97, with the payload's fields as the caller (or
\* cmd_enqueue, cmd_run) gives them: state ("pending" when absent),
\* attempts (0 when absent), max_retries (3 when absent)
enqueue(id, command, state, att, max_retries) ==
  LET row == [id |-> id, command |-> command, state |-> state,
              attempts |-> att, max_retries |-> max_retries, eta |-> NULL,
              created_at |-> now, updated_at |-> now]
      ins == InsertJob(jobs, row)
  IN /\ LockFree
     /\ Issue
     /\ jobs' = ins.jobs
     /\ Returned("enqueue", id, IF ins.raised THEN "IntegrityError" ELSE id)
     /\ UNCHANGED <<dlq, workers, control, config, lock, pend, now, wlocal,
                    opc, oparg, supervisor, call>>

MaxRetriesChoices == 0..MaxRetriesIn \cup {DefaultMaxRetries}
AttemptsChoices == 0..MaxAttemptsIn

\* enqueue of a payload that leaves state and attempts to their defaults
OEnqueue ==
  \E id \in JobIds, c \in Commands, mr \in MaxRetriesChoices :
    enqueue(id, c, "pending", DefaultAttempts, mr)

\* enqueue of a payload that sets state or attempts itself
OEnqueueAny ==
  \E id \in JobIds, c \in Commands, mr \in MaxRetriesChoices,
     st \in States, att \in AttemptsChoices :
    /\ st # "pending" \/ att # DefaultAttempts
    /\ enqueue(id, c, st, att, mr)

\* delete_job, lines 115-118
ODeleteJob ==
  \E id \in JobIds :
    /\ LockFree
    /\ Issue
    /\ jobs' = DeleteJobRow(jobs, id)
    /\ Returned("delete_job", id, IF HasJob(jobs, id) THEN "True" ELSE "False")
    /\ UNCHANGED <<dlq, workers, control, config, lock, pend, now, wlocal,
                   opc, oparg, supervisor, call>>

\* retry_from_dlq, lines 160-164: BEGIN IMMEDIATE and the SELECT on dlq;
\* with no record the call returns False (and commits)
ORetrySelect ==
  \E id \in JobIds :
    /\ opc = "idle"
    /\ Issue
    /\ IF DlqOf(dlq, id) = {}
         THEN /\ LockFree
              /\ Returned("retry_from_dlq", id, "False")
              /\ oparg' = id
              /\ UNCHANGED <<jobs, dlq, lock, pend, opc>>
         ELSE /\ FirstStmt(Operator, jobs, dlq)
              /\ opc' = "retry_update"
              /\ oparg' = id
              /\ opret' = opret
    /\ UNCHANGED <<workers, control, config, now, wlocal, supervisor, call>>

\* retry_from_dlq, lines 166-168: the UPDATE back to pending
ORetryUpdate ==
  /\ opc = "retry_update"
  /\ MidStmt(Operator, SetPending(ViewJobs(Operator), oparg, now),
             ViewDlq(Operator))
  /\ opc' = "retry_delete"
  /\ UNCHANGED <<workers, control, config, now, wlocal, oparg, opret, ops, supervisor, call>>

\* retry_from_dlq, lines 169-170: the DELETE FROM dlq, COMMIT, return True
ORetryDelete ==
  /\ opc = "retry_delete"
  /\ LastStmt(Operator, ViewJobs(Operator), DeleteDlq(ViewDlq(Operator), oparg))
  /\ opc' = "idle"
  /\ Returned("retry_from_dlq", oparg, "True")
  /\ UNCHANGED <<workers, control, config, now, wlocal, oparg, ops, supervisor, call>>

\* request_stop, lines 192-194 (cmd_worker_stop)
ORequestStop ==
  /\ LockFree
  /\ Issue
  /\ control' = control \cup {"stop_requested"}
  /\ Returned("request_stop", "", "None")
  /\ UNCHANGED <<jobs, dlq, workers, config, lock, pend, now, wlocal, opc,
                 oparg, supervisor, call>>

\* clear_stop, lines 196-198 (cmd_worker_start)
OClearStop ==
  /\ LockFree
  /\ Issue
  /\ control' = control \ {"stop_requested"}
  /\ Returned("clear_stop", "", "None")
  /\ UNCHANGED <<jobs, dlq, workers, config, lock, pend, now, wlocal, opc,
                 oparg, supervisor, call>>

\* config_set, lines 207-209 (cmd_config_set stores str(value) unchecked)
OConfigSet ==
  \E v \in ConfigValues :
    /\ LockFree
    /\ Issue
    /\ config' = [k \in DOMAIN config \cup {"backoff_base"} |->
                    IF k = "backoff_base" THEN v ELSE config[k]]
    /\ Returned("config_set", "", "None")
    /\ UNCHANGED <<jobs, dlq, workers, control, lock, pend, now, wlocal, opc,
                   oparg, supervisor, call>>

\* ------------------------------------------------------ specifications

\* Storage.__init__ on a fresh file, Worker.__init__ for each worker
Init ==
  /\ jobs = [id \in {} |-> 0]
  /\ dlq = <<>>
  /\ workers = {}
  /\ control = {}
  /\ config = [k \in {} |-> ""]
  /\ lock = NoProc
  /\ pend = NoTxn
  /\ now = 0
  /\ pc = [w \in Pids |-> "start"]
  /\ stop_event = [w \in Pids |-> FALSE]
  /\ job = [w \in Pids |-> None]
  /\ attempts = [w \in Pids |-> 0]
  /\ delay = [w \in Pids |-> 0]
  /\ err = [w \in Pids |-> NoErr]
  /\ opc = "idle"
  /\ oparg = "j1"
  /\ opret = [op |-> "none", ret |-> "None"]
  /\ ops = 0
  /\ sup = "join"
  /\ supi = 1
  /\ arg_base = 2
  /\ arg_attempts = 0
  /\ ret_delay = NULL

\* run_forever up to the finally clause
WorkerLoopStep(w) ==
  \/ WRegister(w)
  \/ WLoop(w)
  \/ WPopSelect(w)
  \/ WSleep(w)
  \/ WPopUpdate(w)
  \/ WRun(w)
  \/ WMarkCompleted(w)
  \/ WConfigGet(w)
  \/ WConfigGetInHandler(w)
  \/ WMarkFailedRetry(w)
  \/ WDlqInsert(w)
  \/ WDlqUpdate(w)

\* run_forever
WorkerStep(w) ==
  \/ WorkerLoopStep(w)
  \/ WDeregister(w)

\* The store and the processes the CLI starts around it: enqueue of
\* payloads that leave state and attempts to their defaults, the workers,
\* dlq retry, worker stop and start, config set, signals, the clock.
Next ==
  \/ \E w \in Pids : WorkerStep(w)
  \/ \E w \in Pids : Signal(w)
  \/ OEnqueue
  \/ ORetrySelect
  \/ ORetryUpdate
  \/ ORetryDelete
  \/ ORequestStop
  \/ OClearStop
  \/ OConfigSet
  \/ Tick

Spec == Init /\ [][Next]_vars

\* Enqueue of any payload (state and attempts as the caller sets them), the
\* workers' loops, dlq retry and the clock.
NextPayload ==
  \/ \E w \in Pids : WorkerLoopStep(w)
  \/ OEnqueue
  \/ OEnqueueAny
  \/ ORetrySelect
  \/ ORetryUpdate
  \/ ORetryDelete
  \/ Tick

SpecPayload == Init /\ [][NextPayload]_vars


\* Enqueue with default state and attempts, the workers' loops and the
\* clock, with nobody stopping the workers: every worker process keeps
\* being scheduled (its sleep ends, its command ends, it gets the write
\* lock when it is free) and the clock advances.
NextRetry ==
  \/ \E w \in Pids : WorkerLoopStep(w)
  \/ OEnqueue
  \/ Tick

SpecRetry ==
  /\ Init
  /\ [][NextRetry]_vars
  /\ \A w \in Pids : WF_vars(WorkerLoopStep(w))
  /\ WF_vars(Tick)

\* cmd_worker_stop, line 53: request_stop
OWorkerStop ==
  /\ opc = "idle"
  /\ LockFree
  /\ Issue
  /\ control' = control \cup {"stop_requested"}
  /\ opc' = "terminate"
  /\ UNCHANGED <<jobs, dlq, workers, config, lock, pend, now, wlocal, oparg,
                 opret, supervisor, call>>

\* cmd_worker_stop, lines 56-62: list_workers, then p.terminate() (SIGTERM)
\* for every registered pid.  A registered worker has installed its
\* handlers (lines 21-24), so the signal runs _handle_signal.
OWorkerStopTerminate ==
  /\ opc = "terminate"
  /\ stop_event' = [w \in Pids |-> stop_event[w] \/ w \in workers]
  /\ opc' = "idle"
  /\ Returned("worker_stop", "", "None")
  /\ UNCHANGED <<store, now, pc, job, attempts, delay, err, oparg, ops, supervisor, call>>

\* The workers of a `worker start`, enqueue, `worker stop` as a whole and
\* the clear_stop of a further `worker start`.  Every process keeps being
\* scheduled: the workers (their commands and sleeps end), the stop
\* command between its two steps, the clock.
NextStop ==
  \/ \E w \in Pids : WorkerStep(w)
  \/ OEnqueue
  \/ OWorkerStop
  \/ OWorkerStopTerminate
  \/ OClearStop
  \/ Tick

SpecStop ==
  /\ Init
  /\ [][NextStop]_vars
  /\ \A w \in Pids : WF_vars(WorkerStep(w))
  /\ WF_vars(OWorkerStopTerminate)
  /\ WF_vars(Tick)

\* The job tables pop_pending_for_run can be called on: over the ids,
\* pending rows as the schema admits them (eta NULL, past due, due after a
\* tick, or never due within the clock's range) and failed rows as
\* mark_failed_retry leaves them (attempts counted, within max_retries,
\* eta set).
ClaimRows ==
  {r \in {[id |-> id, command |-> c, state |-> st,
           attempts |-> IF st = "failed" THEN 1 ELSE 0,
           max_retries |-> mr, eta |-> e, created_at |-> ca,
           updated_at |-> ca] :
            id \in JobIds, c \in Commands, st \in {"pending", "failed"},
            mr \in MaxRetriesChoices, e \in {NULL} \cup (0..MaxNow + 1),
            ca \in 0..MaxNow} :
     r.state = "failed" => r.eta # NULL /\ r.attempts <= r.max_retries}
ClaimTables ==
  UNION {{t \in [S -> ClaimRows] : \A id \in S : t[id].id = id} :
           S \in SUBSET JobIds}

InitClaim ==
  /\ jobs \in ClaimTables
  /\ dlq = <<>>
  /\ workers = {}
  /\ control = {}
  /\ config = [k \in {} |-> ""]
  /\ lock = NoProc
  /\ pend = NoTxn
  /\ now = 0
  /\ pc = [w \in Pids |-> "start"]
  /\ stop_event = [w \in Pids |-> FALSE]
  /\ job = [w \in Pids |-> None]
  /\ attempts = [w \in Pids |-> 0]
  /\ delay = [w \in Pids |-> 0]
  /\ err = [w \in Pids |-> NoErr]
  /\ opc = "idle"
  /\ oparg = "j1"
  /\ opret = [op |-> "none", ret |-> "None"]
  /\ ops = 0
  /\ sup = "join"
  /\ supi = 1
  /\ arg_base = 2
  /\ arg_attempts = 0
  /\ ret_delay = NULL

\* The workers' loops and the clock over a job table given at the start.
NextClaim ==
  \/ \E w \in Pids : WorkerLoopStep(w)
  \/ Tick

SpecClaim == InitClaim /\ [][NextClaim]_vars

\* ------------------------------------------------- start_workers
\* Init is the state after lines 75-80: the worker processes are started
\* and start_workers is at its first p.join().

\* p.is_alive(): the process of worker w has not exited
NeverAlive(w) == FALSE
is_alive(w) == pc[w] # "done"

\* p.terminate(): SIGTERM.  A worker that has installed its handlers
\* (lines 21-22) runs _handle_signal; before that the signal's default
\* action ends the process, which has not registered yet.
terminate(w) ==
  IF pc[w] = "start"
    THEN pc' = [pc EXCEPT ![w] = "done"] /\ stop_event' = stop_event
    ELSE stop_event' = [stop_event EXCEPT ![w] = TRUE] /\ pc' = pc

\* lines 83-84: p.join() returns when the process has exited; after the
\* last one the finally clause starts
SJoin ==
  /\ sup = "join"
  /\ ~is_alive(supi)
  /\ IF supi = NumWorkers
       THEN sup' = "finally" /\ supi' = 1
       ELSE sup' = sup /\ supi' = supi + 1
  /\ UNCHANGED <<store, now, wlocal, oper, call>>

\* lines 85-86: KeyboardInterrupt arrives while start_workers waits in a
\* p.join() of the try block; except: pass, then the finally clause
SInterrupt ==
  /\ sup = "join"
  /\ sup' = "finally"
  /\ supi' = 1
  /\ UNCHANGED <<store, now, wlocal, oper, call>>

\* lines 88-90: for p in procs: if p.is_alive(): p.terminate()
SFinally ==
  /\ sup = "finally"
  /\ IF is_alive(supi)
       THEN /\ terminate(supi)
            /\ sup' = "finally_join"
            /\ supi' = supi
       ELSE /\ IF supi = NumWorkers
                 THEN sup' = "returned" /\ supi' = supi
                 ELSE sup' = sup /\ supi' = supi + 1
            /\ UNCHANGED <<pc, stop_event>>
  /\ UNCHANGED <<store, now, job, attempts, delay, err, oper, call>>

\* line 91: p.join() of the process just terminated
SFinallyJoin ==
  /\ sup = "finally_join"
  /\ ~is_alive(supi)
  /\ IF supi = NumWorkers
       THEN sup' = "returned" /\ supi' = supi
       ELSE sup' = "finally" /\ supi' = supi + 1
  /\ UNCHANGED <<store, now, wlocal, oper, call>>

\* start_workers with its workers, enqueue, `worker stop`'s request_stop
\* and the clock.  Every process keeps being scheduled; the interrupt may
\* or may not come.
NextSup ==
  \/ \E w \in Pids : WorkerStep(w)
  \/ SJoin
  \/ SInterrupt
  \/ SFinally
  \/ SFinallyJoin
  \/ OEnqueue
  \/ ORequestStop
  \/ Tick

SpecSup ==
  /\ Init
  /\ [][NextSup]_vars
  /\ \A w \in Pids : WF_vars(WorkerStep(w))
  /\ WF_vars(SJoin)
  /\ WF_vars(SFinally)
  /\ WF_vars(SFinallyJoin)
  /\ WF_vars(Tick)

\* ------------------------------------------------- compute_delay alone
\* A direct call of compute_delay (backoff.py) on arguments drawn at the
\* start; nothing else runs.
InitDelay ==
  /\ jobs = [id \in {} |-> 0]
  /\ dlq = <<>>
  /\ workers = {}
  /\ control = {}
  /\ config = [k \in {} |-> ""]
  /\ lock = NoProc
  /\ pend = NoTxn
  /\ now = 0
  /\ pc = [w \in Pids |-> "start"]
  /\ stop_event = [w \in Pids |-> FALSE]
  /\ job = [w \in Pids |-> None]
  /\ attempts = [w \in Pids |-> 0]
  /\ delay = [w \in Pids |-> 0]
  /\ err = [w \in Pids |-> NoErr]
  /\ opc = "idle"
  /\ oparg = "j1"
  /\ opret = [op |-> "none", ret |-> "None"]
  /\ ops = 0
  /\ sup = "join"
  /\ supi = 1
  /\ arg_base \in 0..MaxBase
  /\ arg_attempts \in (0 - MaxAttemptsArg)..MaxAttemptsArg
  /\ ret_delay = NULL

\* the call returns
CallComputeDelay ==
  /\ ret_delay = NULL
  /\ ret_delay' = compute_delay(arg_base, arg_attempts)
  /\ UNCHANGED <<store, now, wlocal, oper, supervisor, arg_base, arg_attempts>>

NextDelay == CallComputeDelay

SpecDelay == InitDelay /\ [][NextDelay]_vars

\* ------------------------------------------------- the whole lifecycle
\* The store after an earlier enqueue of one job with default state and
\* attempts, the workers just started.
InitLifecycle ==
  /\ \E c \in Commands, mr \in MaxRetriesChoices :
       jobs = [id \in {"j1"} |->
                 [id |-> id, command |-> c, state |-> "pending",
                  attempts |-> DefaultAttempts, max_retries |-> mr,
                  eta |-> NULL, created_at |-> 0, updated_at |-> 0]]
  /\ dlq = <<>>
  /\ workers = {}
  /\ control = {}
  /\ config = [k \in {} |-> ""]
  /\ lock = NoProc
  /\ pend = NoTxn
  /\ now = 0
  /\ pc = [w \in Pids |-> "start"]
  /\ stop_event = [w \in Pids |-> FALSE]
  /\ job = [w \in Pids |-> None]
  /\ attempts = [w \in Pids |-> 0]
  /\ delay = [w \in Pids |-> 0]
  /\ err = [w \in Pids |-> NoErr]
  /\ opc = "idle"
  /\ oparg = "j1"
  /\ opret = [op |-> "none", ret |-> "None"]
  /\ ops = 0
  /\ sup = "join"
  /\ supi = 1
  /\ arg_base = 2
  /\ arg_attempts = 0
  /\ ret_delay = NULL

\* The workers' loops with the store's operations on jobs as a caller of
\* Storage may issue them: enqueue, delete_job, retry_from_dlq.
NextLifecycle ==
  \/ \E w \in Pids : WorkerLoopStep(w)
  \/ OEnqueue
  \/ ODeleteJob
  \/ ORetrySelect
  \/ ORetryUpdate
  \/ ORetryDelete
  \/ Tick

SpecLifecycle == InitLifecycle /\ [][NextLifecycle]_vars

\* --------------------------------------------------------------- claims

\* pop_pending_for_run has returned a row to worker w and w has not yet
\* recorded the outcome of running it.
InFlightPcs ==
  {"run", "mark_completed", "config_get", "config_get_h",
   "mark_failed_retry", "move_to_dlq", "dlq_update"}
Holding(w) == pc[w] \in InFlightPcs

\* Worker w's call of pop_pending_for_run returns a row in this step.
PopReturnsRow(w) == pc[w] = "pop_update" /\ pc'[w] = "run"
\* Worker w's call of pop_pending_for_run returns None in this step.
PopReturnsNone(w) == pc[w] = "pop" /\ pc'[w] = "sleep"

\* C1: the claim is mutually exclusive.  A call of pop_pending_for_run that
\* returns a row returns one that was still pending in the store when the
\* call committed, leaves it processing, and no other worker holds a row
\* with that id; a call that returns None found no eligible job and changed
\* nothing in the store.  So of two workers racing for one eligible job one
\* gets it and the other gets None.
C1_ClaimExclusive ==
  [][\A w \in Pids :
       /\ PopReturnsRow(w) =>
            /\ HasJob(jobs, job[w].id)
            /\ jobs[job[w].id].state = "pending"
            /\ jobs'[job[w].id].state = "processing"
            /\ \A o \in DOMAIN jobs \ {job[w].id} : jobs'[o] = jobs[o]
            /\ \A v \in Pids \ {w} : Holding(v) => job[v].id # job[w].id
       /\ PopReturnsNone(w) =>
            /\ \A id \in DOMAIN jobs : ~Eligible(jobs[id], now)
            /\ UNCHANGED store]_vars

\* Two workers raced for the only job of the table: one holds it, the
\* other was told None and sleeps.
C1_Witness ==
  \E w, v \in Pids :
    /\ w # v
    /\ Holding(w)
    /\ pc[v] = "sleep"
    /\ DOMAIN jobs = {job[w].id}
    /\ jobs[job[w].id].state = "processing"

\* C2: a job enqueued with attempts = 0 whose command fails on every
\* execution eventually is dead, with exactly one DLQ record for it, while
\* workers keep running.
C2_EventuallyDead ==
  \A id \in JobIds :
    (HasJob(jobs, id) /\ jobs[id].command = "exit 1")
      ~> (/\ HasJob(jobs, id)
          /\ jobs[id].state = "dead"
          /\ Cardinality(DlqOf(dlq, id)) = 1)

\* The places of the loop a worker is at after a run that failed.
FailurePcs ==
  {"config_get", "config_get_h", "mark_failed_retry", "move_to_dlq",
   "dlq_update"}

\* Worker w's iteration on a job whose run failed ends in this step.
FailedIterationEnds(w) == pc[w] \in FailurePcs /\ pc'[w] \in {"loop", "finally"}

\* The bases float() accepts among the values config_get can return.
Bases == {Float(v) : v \in {x \in ConfigValues \cup {"2"} : IsFloat(x)}}

\* C3: when a worker's run of a claimed job with stored attempts a fails,
\* the iteration ends with the job failed, attempts = a + 1 and
\* eta = now + base^(a+1) if a + 1 <= max_retries, and otherwise with the
\* job dead and one new DLQ record whose last_error describes the failure.
C3_FailureOutcome ==
  [][\A w \in Pids :
       FailedIterationEnds(w) =>
         LET r == job[w]
             a == r.attempts
         IN /\ HasJob(jobs', r.id)
            /\ IF a + 1 <= r.max_retries
                 THEN /\ jobs'[r.id].state = "failed"
                      /\ jobs'[r.id].attempts = a + 1
                      /\ \E b \in Bases : jobs'[r.id].eta = now + Pow(b, a + 1)
                 ELSE /\ jobs'[r.id].state = "dead"
                      /\ Len(dlq') = Len(dlq) + 1
                      /\ dlq'[Len(dlq')].job_id = r.id
                      /\ dlq'[Len(dlq')].last_error \in {"Exit 1", "FileNotFoundError"}]_vars

\* Worker w's mark_completed is applied in this step.
MarksCompleted(w) == pc[w] = "mark_completed" /\ pc'[w] = "loop"

\* C4: a claim+run cycle whose command exits with code 0 leaves the job
\* completed, with eta cleared and attempts as they were stored when it
\* was claimed, and writes no DLQ record: none is added by the step and
\* none exists for the job.
C4_CompletedCycle ==
  [][\A w \in Pids :
       MarksCompleted(w) =>
         /\ HasJob(jobs', job[w].id)
         /\ jobs[job[w].id].state = "processing"
         /\ jobs'[job[w].id].state = "completed"
         /\ jobs'[job[w].id].eta = NULL
         /\ jobs'[job[w].id].attempts = job[w].attempts
         /\ dlq' = dlq
         /\ DlqOf(dlq', job[w].id) = {}]_vars

\* A job enqueued with attempts = 1 was completed by a worker at a later
\* clock value than it was created at.
C4_Witness ==
  \E id \in DOMAIN jobs :
    /\ jobs[id].state = "completed"
    /\ jobs[id].attempts = 1
    /\ jobs[id].updated_at > jobs[id].created_at
    /\ \A w \in Pids : pc[w] \in {"loop", "start"}

\* Worker w's move_to_dlq commits in this step.
MovesToDlq(w) == pc[w] = "dlq_update" /\ pc'[w] = "loop"
\* The operator's retry_from_dlq returns True in this step.
RetryReturnsTrue == opc = "retry_delete" /\ opc' = "idle"
\* The operator's retry_from_dlq returns False in this step.
RetryReturnsFalse ==
  /\ ops' # ops
  /\ opc' = "idle"
  /\ opret' = [op |-> "retry_from_dlq", ret |-> "False"]

\* C5: round trip.  move_to_dlq leaves a DLQ record for the job, a
\* retry_from_dlq of an id that has a record does not return not-found,
\* and when it returns it returns True and leaves the job pending with
\* attempts = 0 and eta = NULL, no DLQ record for the id, and the job
\* eligible for the next claim.
C5_DlqRoundTrip ==
  [][/\ \A w \in Pids : MovesToDlq(w) => DlqOf(dlq', job[w].id) # {}
     /\ RetryReturnsFalse => DlqOf(dlq, oparg') = {}
     /\ RetryReturnsTrue =>
          /\ opret' = [op |-> "retry_from_dlq", ret |-> "True"]
          /\ HasJob(jobs', oparg)
          /\ jobs'[oparg].state = "pending"
          /\ jobs'[oparg].attempts = 0
          /\ jobs'[oparg].eta = NULL
          /\ DlqOf(dlq', oparg) = {}
          /\ Eligible(jobs'[oparg], now')]_vars

\* A job enqueued with attempts = 1 was dead-lettered, retried from the
\* DLQ and claimed again.
C5_Witness ==
  /\ opret = [op |-> "retry_from_dlq", ret |-> "True"]
  /\ HasJob(jobs, oparg)
  /\ jobs[oparg].state = "processing"
  /\ jobs[oparg].attempts = 0
  /\ \E w \in Pids : Holding(w) /\ job[w].id = oparg
  /\ dlq = <<>>

\* C6: in the committed tables, which are what every process observes, a
\* job is dead if and only if exactly one DLQ record carries its id, and
\* no id ever has more than one record (payloads enqueued with default
\* state and attempts).
C6_DeadIffOneRecord ==
  \A id \in JobIds :
    /\ (HasJob(jobs, id) /\ jobs[id].state = "dead")
         <=> Cardinality(DlqOf(dlq, id)) = 1
    /\ Cardinality(DlqOf(dlq, id)) <= 1

\* A job was dead-lettered, retried from the DLQ and dead-lettered again:
\* it is dead with its one fresh record.
C6_Witness ==
  /\ opret = [op |-> "retry_from_dlq", ret |-> "True"]
  /\ HasJob(jobs, oparg)
  /\ jobs[oparg].state = "dead"
  /\ Cardinality(DlqOf(dlq, oparg)) = 1

\* C7: every job that is pending, processing, completed or failed has
\* attempts <= max_retries.
C7_AttemptsWithinMax ==
  \A id \in DOMAIN jobs :
    jobs[id].state \in {"pending", "processing", "completed", "failed"}
      => jobs[id].attempts <= jobs[id].max_retries

\* The operator's enqueue runs in this step.
EnqueueStep == ops' # ops /\ opc' = "idle" /\ opret'.op = "enqueue"

\* C8: enqueue of an id that is in the job table raises the duplicate-id
\* error and changes nothing in the store; an enqueue that does not raise
\* returns an id that was not in the table and adds that one row, leaving
\* every other row as it was.
C8_DuplicateEnqueue ==
  [][EnqueueStep =>
       IF opret'.ret = "IntegrityError"
         THEN UNCHANGED store
         ELSE /\ opret'.ret \notin DOMAIN jobs
              /\ DOMAIN jobs' = DOMAIN jobs \cup {opret'.ret}
              /\ \A o \in DOMAIN jobs : jobs'[o] = jobs[o]
              /\ UNCHANGED <<dlq, workers, control, config>>]_vars

\* An enqueue was rejected as a duplicate while the job it named had
\* already been run to completion.
C8_Witness ==
  /\ opret = [op |-> "enqueue", ret |-> "IntegrityError"]
  /\ \E id \in DOMAIN jobs : jobs[id].state = "completed"

\* The operator's retry_from_dlq finds a DLQ record in this step.
RetryFinds == ops' # ops /\ opc' = "retry_update"

C10_NoClaimAfterStop ==
  [][\A w \in Pids :
       PopReturnsRow(w) => ~is_stop_requested /\ ~stop_event[w]]_vars

\* C10 as amended: a worker calls the claim only from a loop test that
\* found neither its stop_event nor the store's stop flag set; a loop test
\* that finds either leaves the loop with no job in flight, and a worker
\* that has left the loop never claims again.
C10_StopChecked ==
  [][\A w \in Pids :
       /\ pc'[w] = "pop" /\ pc[w] # "pop" =>
            pc[w] = "loop" /\ ~stop_event[w] /\ ~is_stop_requested
       /\ pc[w] = "loop" /\ pc'[w] # "loop" /\ (stop_event[w] \/ is_stop_requested) =>
            pc'[w] = "finally" /\ job[w] = None
       /\ pc[w] \in {"finally", "done"} => pc'[w] \in {"finally", "done"}]_vars

\* A worker that was signalled has finished a job and left, with another
\* job still pending in the table.
C10_Witness ==
  \E w \in Pids :
    /\ pc[w] = "done"
    /\ stop_event[w]
    /\ \E id \in DOMAIN jobs : jobs[id].state = "completed"
    /\ \E id \in DOMAIN jobs : jobs[id].state = "pending"

\* C11: stop liveness.  Once the operator's stop command has issued
\* request_stop, every worker process eventually leaves its loop and
\* terminates, also when a clear_stop of a start command follows.
C11_StopLiveness ==
  \A w \in Pids : (opc = "terminate") ~> (pc[w] = "done")

\* The order of the claim as the specification words it: jobs with no eta
\* before jobs with an eta, then oldest created_at first.
Precedes(r, s) ==
  \/ r.eta = NULL /\ s.eta # NULL
  \/ r.eta = NULL /\ s.eta = NULL /\ r.created_at < s.created_at
  \/ r.eta # NULL /\ s.eta # NULL /\ r.created_at < s.created_at
\* state = pending and (eta is null or eta <= now), in the committed table
IsEligibleNow(id) ==
  /\ jobs[id].state = "pending"
  /\ jobs[id].eta = NULL \/ jobs[id].eta <= now

\* C12: claim ordering.  The SELECT of pop_pending_for_run finds no row
\* (the call returns None and changes nothing) exactly when no job is
\* eligible; otherwise it picks an eligible job that no eligible job
\* precedes, and the call returns that row and changes only it, from
\* pending to processing.
C12_ClaimOrdering ==
  [][\A w \in Pids :
       /\ pc[w] = "pop" /\ pc'[w] # "pop" =>
            IF \A id \in DOMAIN jobs : ~IsEligibleNow(id)
              THEN /\ PopReturnsNone(w)
                   /\ job'[w] = None
                   /\ UNCHANGED store
              ELSE /\ pc'[w] = "pop_update"
                   /\ job'[w].id \in DOMAIN jobs
                   /\ job'[w] = jobs[job'[w].id]
                   /\ IsEligibleNow(job'[w].id)
                   /\ \A o \in DOMAIN jobs :
                        IsEligibleNow(o) => ~Precedes(jobs[o], job'[w])
       /\ PopReturnsRow(w) =>
            /\ jobs[job[w].id] = job[w]
            /\ job[w].state = "pending"
            /\ jobs' = [jobs EXCEPT ![job[w].id].state = "processing",
                                    ![job[w].id].updated_at = now]]_vars

\* A worker holds a job without eta although an older job with a past-due
\* eta was pending when it claimed, and still is.
C12_Witness ==
  \E w \in Pids : \E o \in DOMAIN jobs :
    /\ Holding(w)
    /\ job[w].eta = NULL
    /\ jobs[job[w].id].state = "processing"
    /\ jobs[o].state = "pending"
    /\ jobs[o].eta # NULL
    /\ jobs[o].eta <= jobs[job[w].id].updated_at
    /\ jobs[o].created_at < job[w].created_at

C14_ComputeDelay ==
  /\ [](ret_delay # NULL =>
          /\ ret_delay = Pow(arg_base, IF arg_attempts > 0 THEN arg_attempts ELSE 0)
          /\ arg_attempts < 0 => ret_delay = 1
          /\ arg_base = 2 /\ arg_attempts \in 0..4 =>
               ret_delay = <<1, 2, 4, 8, 16>>[arg_attempts + 1])
  /\ [][ret_delay' # ret_delay =>
          UNCHANGED <<store, now, wlocal, oper, supervisor, arg_base,
                      arg_attempts>>]_vars

\* compute_delay(2, 4) has returned 16.
C14_Witness == arg_base = 2 /\ arg_attempts = 4 /\ ret_delay = 16

\* C15: execution faults never escape the worker loop.  Whatever
\* backoff_base holds, an iteration whose run failed (non-zero exit or a
\* fault of the launch) ends with the job stored as failed or dead and the
\* worker back at its loop test, never in the finally clause.
C15_FaultsNeverEscape ==
  [][\A w \in Pids :
       pc[w] \in FailurePcs /\ pc'[w] \notin FailurePcs =>
         /\ pc'[w] = "loop"
         /\ HasJob(jobs', job[w].id)
         /\ jobs'[job[w].id].state \in {"failed", "dead"}]_vars

\* C16: no double processing over the whole lifecycle.  With enqueue,
\* delete_job and retry_from_dlq interleaved with the workers, no two
\* workers hold the same job id at the same time.
C16_NoDoubleProcessing ==
  \A w, v \in Pids :
    w # v /\ Holding(w) /\ Holding(v) => job[w].id # job[v].id

\* C17: the payload of the DLQ record a worker's move_to_dlq writes is a
\* snapshot of the stored row at that moment: its state, attempts and
\* updated_at are those of the row in the store just before move_to_dlq
\* commits, and its attempts is the number of failed executions so far
\* (the worker's incremented count).
C17_DlqPayloadSnapshot ==
  [][\A w \in Pids :
       MovesToDlq(w) =>
         LET rec == dlq'[Len(dlq')]
             id == job[w].id
         IN /\ rec.job_id = id
            /\ HasJob(jobs, id)
            /\ rec.payload.state = jobs[id].state
            /\ rec.payload.attempts = jobs[id].attempts
            /\ rec.payload.updated_at = jobs[id].updated_at
            /\ rec.payload.attempts = attempts[w]]_vars

\* C18: a worker's registry row exists from its startup on, and once its
\* run_forever has ended, by whatever path (stop flag, signal, a fault
\* that left the loop), the registry has no row for its pid.
C18_Deregistered ==
  \A w \in Pids :
    /\ pc[w] = "done" => w \notin workers
    /\ pc[w] \notin {"start", "done"} => w \in workers

\* A worker's run_forever has ended by a ValueError that left the loop,
\* its job still processing, and its registry row is gone while the other
\* worker's row is there.
C18_Witness ==
  \E w, v \in Pids :
    /\ pc[w] = "done"
    /\ err[w] = ValueErrorText
    /\ job[w] # None
    /\ jobs[job[w].id].state = "processing"
    /\ w \notin workers
    /\ v \in workers

\* C19: a failed job never re-enters circulation by itself.  Whatever its
\* eta and the clock, no step of a worker and no tick moves a failed job
\* to pending or processing, and the SELECT of the claim never picks it.
C19_FailedStaysOut ==
  [][\A id \in DOMAIN jobs :
       jobs[id].state = "failed" =>
         /\ HasJob(jobs', id)
         /\ jobs'[id].state \notin {"pending", "processing"}
         /\ \A w \in Pids :
              job'[w] # job[w] =>
                IF job'[w] = None THEN TRUE ELSE job'[w].id # id]_vars

\* A worker has put a job in failed; another failed job's eta has elapsed,
\* nothing is pending, and a worker that polled was told None.
C19_Witness ==
  \E id, o \in DOMAIN jobs : \E w \in Pids :
    /\ id # o
    /\ jobs[id].state = "failed"
    /\ jobs[id].updated_at > jobs[id].created_at
    /\ jobs[o].state = "failed"
    /\ jobs[o].eta <= now
    /\ pc[w] = "sleep"

\* C20: no orphaned processing jobs.  A worker that has left its loop, by
\* whatever path, has left no job it claimed in state processing: every
\* job that is processing is held by a worker that is still in its loop.
C20_NoOrphans ==
  /\ \A w \in Pids :
       pc[w] \in {"finally", "done"} /\ job[w] # None =>
         ~(HasJob(jobs, job[w].id) /\ jobs[job[w].id].state = "processing")
  /\ \A id \in DOMAIN jobs :
       jobs[id].state = "processing" =>
         \E w \in Pids : Holding(w) /\ job[w].id = id

\* C21: in every state reached through enqueue, the claim, mark_completed,
\* mark_failed_retry, move_to_dlq and retry_from_dlq, a job has a non-null
\* eta only while it is failed; so every pending job has eta NULL and
\* satisfies the claim's eligibility predicate at any clock value.
C21_EtaOnlyWhileFailed ==
  \A id \in DOMAIN jobs :
    /\ jobs[id].eta # NULL => jobs[id].state = "failed"
    /\ jobs[id].state = "pending" =>
         /\ jobs[id].eta = NULL
         /\ \A t \in 0..MaxNow : jobs[id].eta = NULL \/ jobs[id].eta <= t

\* mark_failed_retry has left a job failed with an eta in the future while
\* another job, whose eta is NULL, is being processed.
C21_Witness ==
  \E id, o \in DOMAIN jobs :
    /\ id # o
    /\ jobs[id].state = "failed"
    /\ jobs[id].eta # NULL
    /\ jobs[id].eta > now
    /\ jobs[o].state = "processing"
    /\ jobs[o].eta = NULL
    /\ \E w \in Pids : Holding(w) /\ job[w].id = o

=============================================================================
